---- MODULE Spec2Model ----
(***************************************************************************)
(* Model of calc_mean_erp (src/calc_mean_erp.py): the trial table is       *)
(* loaded, missing values are filled and the columns cast to integers, the *)
(* start and peak columns are validated against the signal, the windows of *)
(* the trials are accumulated per finger, the per-finger sums are divided  *)
(* by the counts, the finger/response correlation is printed and the       *)
(* matrix of means is returned.                                            *)
(*                                                                         *)
(* Python indices are 0-based: sample i of the signal is ecog_signal[i+1], *)
(* the rows of the result are indexed 0..4 as in the source.  Floats are   *)
(* exact rationals <<n, d>> in lowest terms, d > 0; <<0, 0>> is NaN.       *)
(***************************************************************************)
EXTENDS Integers, Sequences, FiniteSets, TLC

\* ---------------------------------------------------------------- bounds
MaxTrials == 2
SigLen == 3
Margins == {0, 1}

\* ------------------------------------------------------- program constants
NumFingers == 5
Classes == 0 .. (NumFingers - 1)

\* ------------------------------------------------------------- arithmetic
Abs(x) == IF x < 0 THEN -x ELSE x

Sgn(x) == IF x < 0 THEN -1 ELSE IF x > 0 THEN 1 ELSE 0

RECURSIVE GCD(_, _)
GCD(a, b) == IF b = 0 THEN a ELSE GCD(b, a % b)

\* a float: the rational n/d in lowest terms; the float division x/0 gives NaN
\* (0/0) or a signed infinity, it raises nothing
NaN == <<0, 0>>

Frac(n, d) ==
    IF d = 0 THEN <<Sgn(n), 0>>
    ELSE LET g == GCD(Abs(n), Abs(d))
         IN  <<Sgn(d) * (n \div g), Abs(d) \div g>>

FracAdd(x, y) ==
    IF x[2] = 0 \/ y[2] = 0 THEN NaN
    ELSE Frac(x[1] * y[2] + y[1] * x[2], x[2] * y[2])

FracDiv(x, c) == IF x[2] = 0 THEN NaN ELSE Frac(x[1], x[2] * c)

Zero == <<0, 1>>

\* astype(int) of a float: truncation toward zero
AsTypeInt(x) == Sgn(x[1]) * (Abs(x[1]) \div x[2])

RECURSIVE SumSeq(_)
SumSeq(s) == IF s = <<>> THEN 0 ELSE s[1] + SumSeq(Tail(s))

\* ------------------------------------------------------------ trial table
\* a cell of the csv: <<v>> holds v, <<>> is a missing value
Missing == <<>>
Columns == {"start", "peak", "finger"}

IsNull(cell) == cell = Missing

Present(table, col) == {i \in 1 .. Len(table) : ~IsNull(table[i][col])}

RECURSIVE ColSum(_, _, _)
ColSum(table, col, n) ==
    IF n = 0 THEN 0
    ELSE ColSum(table, col, n - 1)
         + (IF IsNull(table[n][col]) THEN 0 ELSE table[n][col][1])

\* DataFrame.mean(): per column, the mean of the values that are not missing
ColMean(table, col) ==
    Frac(ColSum(table, col, Len(table)), Cardinality(Present(table, col)))

AnyNull(table) ==
    \E i \in 1 .. Len(table) : \E col \in Columns : IsNull(table[i][col])

\* fillna(trial_points.mean()): a missing cell takes its column's mean
FillNa(table, i, col) ==
    IF IsNull(table[i][col]) THEN ColMean(table, col)
    ELSE <<table[i][col][1], 1>>

\* a column without any value has mean NaN: fillna leaves it and astype raises
CastFails(table) ==
    \E col \in Columns :
        /\ \E i \in 1 .. Len(table) : IsNull(table[i][col])
        /\ ColMean(table, col) = NaN

\* lines 24-30: the table is filled when it has a missing value, then every
\* column is cast with astype(int)
FillAndCast(table) ==
    [i \in 1 .. Len(table) |->
        [col \in Columns |->
            IF AnyNull(table) THEN AsTypeInt(FillNa(table, i, col))
            ELSE table[i][col][1]]]

\* ------------------------------------------------------------- validation
OutOfBoundsMutOffByOne(table, col, sig) ==
    \E i \in 1 .. Len(table) : table[i][col] < 0 \/ table[i][col] > Len(sig)

OutOfBounds(table, col, sig) ==
    \E i \in 1 .. Len(table) : table[i][col] < 0 \/ table[i][col] >= Len(sig)

\* ---------------------------------------------------------------- windows
window_size(pre, post) == pre + post + 1

\* ecog_signal[a : b] with Python's slice rules
SliceBound(k, n) ==
    IF k < 0 THEN (IF k + n < 0 THEN 0 ELSE k + n)
    ELSE IF k > n THEN n ELSE k

PySlice(sig, a, b) ==
    LET lo == SliceBound(a, Len(sig))
        hi == SliceBound(b, Len(sig))
    IN  IF hi <= lo THEN <<>> ELSE [k \in 1 .. (hi - lo) |-> sig[lo + k]]

Window(sig, start, pre, post) == PySlice(sig, start - pre, start + post + 1)

FitsMutStrictLo(sig, start, pre, post) ==
    start - pre > 0 /\ start + post < Len(sig)

Fits(sig, start, pre, post) ==
    start - pre >= 0 /\ start + post < Len(sig)

\* ------------------------------------------------------------ accumulators
ZeroRow(n) == [k \in 1 .. n |-> Zero]

NewAcc(pre, post) ==
    [mean      |-> [i \in Classes |-> ZeroRow(window_size(pre, post))],
     counts    |-> [i \in Classes |-> 0],
     responses |-> <<>>,
     error     |-> "none"]

AddWindowMutRunning(row, window) ==
    [k \in 1 .. Len(row) |-> FracDiv(FracAdd(row[k], <<window[k], 1>>), 2)]

\* fingers_erp_mean.loc[finger_idx] += window
AddWindow(row, window) ==
    [k \in 1 .. Len(row) |-> FracAdd(row[k], <<window[k], 1>>)]

ResponseMutIndex(trial, window) == <<trial.finger - 1, SumSeq(window)>>

\* finger_responses.append((row["finger"], sum(window)))
Response(trial, window) == <<trial.finger, SumSeq(window)>>

StepTrialMutAssign(acc, trial, sig, pre, post) ==
    LET finger_idx == trial.finger - 1
        window     == Window(sig, trial.start, pre, post)
    IN  IF ~Fits(sig, trial.start, pre, post) THEN
            acc
        ELSE IF finger_idx \notin Classes THEN
            [acc EXCEPT !.error = "KeyError"]
        ELSE
            [acc EXCEPT
                !.mean[finger_idx] = [k \in 1 .. Len(window) |-> <<window[k], 1>>],
                !.counts[finger_idx] = @ + 1,
                !.responses = Append(@, Response(trial, window))]

\* one iteration of the loop over trial_points.iterrows()
StepTrial(acc, trial, sig, pre, post) ==
    LET finger_idx == trial.finger - 1
        window     == Window(sig, trial.start, pre, post)
    IN  IF ~Fits(sig, trial.start, pre, post) THEN
            acc
        ELSE IF finger_idx \notin Classes THEN
            [acc EXCEPT !.error = "KeyError"]
        ELSE IF Len(window) # window_size(pre, post) THEN
            [acc EXCEPT !.error = "ShapeError"]
        ELSE
            [acc EXCEPT
                !.mean[finger_idx] = AddWindow(@, window),
                !.counts[finger_idx] = @ + 1,
                !.responses = Append(@, Response(trial, window))]

DivideRowMutNoGuard(row, count) == [k \in 1 .. Len(row) |-> FracDiv(row[k], count)]

\* if finger_counts[i] > 0: fingers_erp_mean.loc[i] /= finger_counts[i]
DivideRow(row, count) ==
    IF count > 0 THEN [k \in 1 .. Len(row) |-> FracDiv(row[k], count)] ELSE row

Means(acc) == [i \in Classes |-> DivideRow(acc.mean[i], acc.counts[i])]

\* ------------------------------------------------------------- correlation
\* Series.corr (Pearson): NaN when there are no pairs, one pair or a constant
\* column; otherwise <<"r", sign, r^2>>
Pearson(pairs) ==
    LET n   == Len(pairs)
        x   == [i \in 1 .. n |-> pairs[i][1]]
        y   == [i \in 1 .. n |-> pairs[i][2]]
        sx  == SumSeq(x)
        sy  == SumSeq(y)
        cov == n * SumSeq([i \in 1 .. n |-> x[i] * y[i]]) - sx * sy
        vx  == n * SumSeq([i \in 1 .. n |-> x[i] * x[i]]) - sx * sx
        vy  == n * SumSeq([i \in 1 .. n |-> y[i] * y[i]]) - sy * sy
    IN  IF n = 0 \/ vx * vy = 0 THEN <<"nan">>
        ELSE <<"r", Sgn(cov), Frac(cov * cov, vx * vy)>>

\* ---------------------------------------------------------- whole function
RECURSIVE RunLoop(_, _, _, _, _, _)
RunLoop(acc, table, n, sig, pre, post) ==
    IF n > Len(table) \/ acc.error # "none" THEN acc
    ELSE RunLoop(StepTrial(acc, table[n], sig, pre, post), table, n + 1,
                 sig, pre, post)

Failed(kind) == [status |-> "error", error |-> kind]

\* the outcome of calc_mean_erp(trial table, signal, pre_event, post_event):
\* the error it raises or the matrix it returns
CalcMeanErp(table, sig, pre, post) ==
    IF CastFails(table) THEN Failed("IntCastingNaNError")
    ELSE LET points == FillAndCast(table)
         IN  IF OutOfBounds(points, "start", sig) THEN Failed("StartOutOfBounds")
             ELSE IF OutOfBounds(points, "peak", sig) THEN Failed("PeakOutOfBounds")
             ELSE LET last == RunLoop(NewAcc(pre, post), points, 1, sig, pre, post)
                  IN  IF last.error # "none" THEN Failed(last.error)
                      ELSE [status |-> "ok", mean |-> Means(last)]

\* ------------------------------------------------------------------ inputs
Ramp == [i \in 1 .. SigLen |-> i - 1]
Flat == [i \in 1 .. SigLen |-> 0]
Alternating == [i \in 1 .. SigLen |-> IF i % 2 = 1 THEN 1 ELSE -1]
Signals == {Ramp, Flat, Alternating}

Row(s, p, f) == [start |-> s, peak |-> p, finger |-> f]

ValidRows(fingers) ==
    {Row(<<s>>, <<s>>, <<f>>) : s \in 0 .. (SigLen - 1), f \in fingers}

BoundsRows ==
    {Row(<<s>>, <<0>>, <<1>>) : s \in {-1, SigLen}}
    \cup {Row(<<0>>, <<p>>, <<1>>) : p \in {-1, SigLen}}

FingerRows == {Row(<<0>>, <<0>>, <<f>>) : f \in {0, NumFingers + 1}}

MissingRows ==
    {Row(Missing, <<0>>, <<1>>), Row(<<0>>, Missing, <<1>>),
     Row(<<1>>, <<1>>, Missing)}

Rows == ValidRows({1, 2, NumFingers}) \cup BoundsRows \cup FingerRows
        \cup MissingRows

Tables == UNION {[1 .. n -> Rows] : n \in 0 .. MaxTrials}

\* longer tables with missing values, for the column means
ImputeRows == ValidRows({1, NumFingers}) \cup MissingRows

ImputeTables == UNION {[1 .. n -> ImputeRows] : n \in 0 .. (MaxTrials + 2)}

\* ------------------------------------------------------------------- state
VARIABLES
    raw,              \* the trial table as read from the csv
    ecog_signal,
    pre_event,
    post_event,
    trial_points,     \* the table after fillna and astype(int)
    acc,              \* fingers_erp_mean, finger_counts, finger_responses
    idx,              \* rows of trial_points the loop has processed
    stdout,           \* what the call printed
    pc,
    error

vars == <<raw, ecog_signal, pre_event, post_event, trial_points, acc, idx,
          stdout, pc, error>>

inputs == <<raw, ecog_signal, pre_event, post_event>>

Unset == <<>>

Start(tables) ==
    /\ raw \in tables
    /\ ecog_signal \in Signals
    /\ pre_event \in Margins
    /\ post_event \in Margins
    /\ trial_points = Unset
    /\ acc = Unset
    /\ idx = 0
    /\ stdout = <<>>
    /\ pc = "load"
    /\ error = "none"

Init == Start(Tables)

InitImpute == Start(ImputeTables)

\* lines 20-32: read, fill the missing values, cast the columns
Load ==
    /\ pc = "load"
    /\ IF CastFails(raw)
       THEN /\ pc' = "error"
            /\ error' = "IntCastingNaNError"
            /\ UNCHANGED trial_points
       ELSE /\ pc' = "validate"
            /\ trial_points' = FillAndCast(raw)
            /\ UNCHANGED error
    /\ UNCHANGED <<inputs, acc, idx, stdout>>

\* lines 34-48: the bounds checks, then the accumulators are created
Validate ==
    /\ pc = "validate"
    /\ IF OutOfBounds(trial_points, "start", ecog_signal)
       THEN /\ pc' = "error"
            /\ error' = "StartOutOfBounds"
            /\ UNCHANGED acc
       ELSE IF OutOfBounds(trial_points, "peak", ecog_signal)
       THEN /\ pc' = "error"
            /\ error' = "PeakOutOfBounds"
            /\ UNCHANGED acc
       ELSE /\ pc' = "loop"
            /\ acc' = NewAcc(pre_event, post_event)
            /\ UNCHANGED error
    /\ UNCHANGED <<inputs, trial_points, idx, stdout>>

\* lines 49-62: one row of the table
ProcessTrial ==
    /\ pc = "loop"
    /\ idx < Len(trial_points)
    /\ LET next == StepTrial(acc, trial_points[idx + 1], ecog_signal,
                             pre_event, post_event)
       IN  IF next.error # "none"
           THEN /\ pc' = "error"
                /\ error' = next.error
                /\ UNCHANGED <<acc, idx>>
           ELSE /\ acc' = next
                /\ idx' = idx + 1
                /\ UNCHANGED <<pc, error>>
    /\ UNCHANGED <<inputs, trial_points, stdout>>

\* lines 64-67: the division by the counts
ComputeMeans ==
    /\ pc = "loop"
    /\ idx = Len(trial_points)
    /\ acc' = [acc EXCEPT !.mean = Means(acc)]
    /\ pc' = "corr"
    /\ UNCHANGED <<inputs, trial_points, idx, stdout, error>>

\* lines 69-74: the correlation is computed and printed
Correlate ==
    /\ pc = "corr"
    /\ stdout' = Append(stdout, <<"Correlation", Pearson(acc.responses)>>)
    /\ pc' = "plot"
    /\ UNCHANGED <<inputs, trial_points, acc, idx, error>>

\* lines 76-85: the scatter plot is shown and fingers_erp_mean returned
PlotAndReturn ==
    /\ pc = "plot"
    /\ pc' = "done"
    /\ UNCHANGED <<inputs, trial_points, acc, idx, stdout, error>>

Next == Load \/ Validate \/ ProcessTrial \/ ComputeMeans \/ Correlate \/ PlotAndReturn

Spec == Init /\ [][Next]_vars

SpecImpute == InitImpute /\ [][Next]_vars

\* ------------------------------------------------------ the claims' terms
Loaded == pc # "load" /\ error # "IntCastingNaNError"

Started == acc # Unset

Returned == pc = "done"

NumTrials == Len(trial_points)

Lo(i) == trial_points[i].start - pre_event

Hi(i) == trial_points[i].start + post_event

\* the inclusion rule of the specification
Included(i) == Lo(i) >= 0 /\ Hi(i) < Len(ecog_signal)

\* the trials among the first n whose window fits and whose finger is f
IncludedOf(f, n) ==
    {i \in 1 .. n : Included(i) /\ trial_points[i].finger = f}

RECURSIVE SampleSum(_, _)
SampleSum(trials, k) ==
    IF trials = {} THEN 0
    ELSE LET i == CHOOSE j \in trials : TRUE
         IN  ecog_signal[Lo(i) + k] + SampleSum(trials \ {i}, k)

WindowLength == pre_event + post_event + 1

FingersValid == \A i \in 1 .. NumTrials : trial_points[i].finger \in 1 .. NumFingers

IndicesValid ==
    \A i \in 1 .. NumTrials :
        /\ trial_points[i].start \in 0 .. (Len(ecog_signal) - 1)
        /\ trial_points[i].peak \in 0 .. (Len(ecog_signal) - 1)

NothingAccumulated ==
    Started =>
        /\ \A c \in Classes : acc.counts[c] = 0
        /\ \A c \in Classes : \A k \in 1 .. WindowLength : acc.mean[c][k] = <<0, 1>>
        /\ acc.responses = <<>>

\* ------------------------------------------------------------------ claims

\* C1: in a table whose indices and fingers are all valid, a step of the loop
\* accumulates the trial (its class's count grows by one and its class's sum by
\* the samples lo..hi) exactly when lo >= 0 and hi < len(signal); otherwise it
\* changes no sum, no count and no pair, raises nothing and the loop goes on.
C1_InclusionRule ==
    [][(pc = "loop" /\ idx < NumTrials /\ FingersValid) =>
        LET i == idx + 1
            c == trial_points[i].finger - 1
        IN  /\ pc' = "loop" /\ error' = "none" /\ idx' = i
            /\ IF Lo(i) >= 0 /\ Hi(i) < Len(ecog_signal)
               THEN /\ acc'.counts = [acc.counts EXCEPT ![c] = @ + 1]
                    /\ acc'.mean = [acc.mean EXCEPT ![c] =
                           [k \in 1 .. WindowLength |->
                               <<@[k][1] + ecog_signal[Lo(i) + k], 1>>]]
               ELSE /\ acc'.counts = acc.counts
                    /\ acc'.mean = acc.mean
                    /\ acc'.responses = acc.responses]_vars

\* a trial with lo = -1 was skipped, then one with lo = 0 and hi = len - 1 was
\* accumulated, and the call returned
C1_Witness ==
    /\ Returned /\ FingersValid /\ NumTrials = 2
    /\ Lo(1) = -1
    /\ Lo(2) = 0 /\ Hi(2) = Len(ecog_signal) - 1
    /\ acc.counts[trial_points[2].finger - 1] = 1
    /\ Len(acc.responses) = 1

\* C2: while the loop runs each row holds the undivided sum of the windows of
\* the included trials of its finger processed so far; the returned row of a
\* class with included trials is that sum divided by their number.
C2_MeanOfIncluded ==
    /\ (Started /\ pc = "loop") =>
            \A c \in Classes : \A k \in 1 .. WindowLength :
                acc.mean[c][k] = <<SampleSum(IncludedOf(c + 1, idx), k), 1>>
    /\ Returned =>
            \A c \in Classes :
                LET trials == IncludedOf(c + 1, NumTrials)
                IN  trials # {} =>
                        /\ Len(acc.mean[c]) = WindowLength
                        /\ \A k \in 1 .. WindowLength :
                              /\ acc.mean[c][k][2] > 0
                              /\ acc.mean[c][k][1] * Cardinality(trials)
                                   = acc.mean[c][k][2] * SampleSum(trials, k)

\* two trials of one finger were included and the mean is not an integer
C2_Witness ==
    /\ Returned
    /\ \E c \in Classes :
          /\ Cardinality(IncludedOf(c + 1, NumTrials)) = 2
          /\ \E k \in 1 .. WindowLength : acc.mean[c][k][2] = 2
    /\ \E c \in Classes : IncludedOf(c + 1, NumTrials) = {}

\* C3: the returned row of a class without included trials is the zero vector
\* of length pre_event + post_event + 1 (no NaN of a division by a zero count).
C3_EmptyClassIsZero ==
    Returned =>
        \A c \in Classes :
            IncludedOf(c + 1, NumTrials) = {} =>
                acc.mean[c] = [k \in 1 .. WindowLength |-> <<0, 1>>]

\* every trial of a table of two was excluded and the call returned
C3_Witness ==
    /\ Returned /\ NumTrials = 2
    /\ \A i \in 1 .. NumTrials : ~Included(i)
    /\ \A c \in Classes : acc.counts[c] = 0

\* C4: once the table is loaded, a start or peak outside [0, len(signal)) makes
\* the validation fail with an out-of-bounds error before the accumulators
\* exist, and that error is raised for no other table.
C4_BoundsValidation ==
    Loaded =>
        /\ (~IndicesValid /\ pc # "validate") =>
                /\ pc = "error"
                /\ error \in {"StartOutOfBounds", "PeakOutOfBounds"}
                /\ ~Started /\ idx = 0 /\ stdout = <<>>
        /\ error \in {"StartOutOfBounds", "PeakOutOfBounds"} => ~IndicesValid

\* the peak of one trial is out of bounds, its start and window are fine and
\* another trial is valid with a window that fits: the call failed
C4_Witness ==
    /\ pc = "error" /\ error = "PeakOutOfBounds" /\ NumTrials = 2
    /\ \E i \in 1 .. NumTrials :
          /\ trial_points[i].peak \notin 0 .. (Len(ecog_signal) - 1)
          /\ Included(i)
    /\ \E i \in 1 .. NumTrials :
          /\ trial_points[i].peak \in 0 .. (Len(ecog_signal) - 1)
          /\ Included(i)

\* C5: a finger outside 1..5 makes the call fail before anything is
\* accumulated: it never returns and no sum, count or pair has changed.
C5_InvalidClassFailsEagerly ==
    (Loaded /\ ~FingersValid) => (~Returned /\ NothingAccumulated)

\* C6: when the call returns, every class that ended with no included trial
\* has been reported to the caller.
C6_EmptyClassFlagged ==
    Returned =>
        \A c \in Classes :
            acc.counts[c] = 0 =>
                \E m \in 1 .. Len(stdout) :
                    stdout[m][1] = "NoTrials" /\ stdout[m][2] = c + 1

\* C7: a missing value is replaced by its column's mean rounded to the nearest
\* integer (halves up): floor(mean + 1/2).
C7_ImputeRoundsToNearest ==
    (Loaded /\ pc = "validate") =>
        \A i \in 1 .. Len(raw) : \A col \in Columns :
            raw[i][col] = <<>> =>
                LET known == {j \in 1 .. Len(raw) : raw[j][col] # <<>>}
                    total == ColSum(raw, col, Len(raw))
                    n     == Cardinality(known)
                IN  trial_points[i][col] = (2 * total + n) \div (2 * n)

\* C8: with fewer than 2 included trials no correlation is produced: the call
\* fails instead.
C8_InsufficientData ==
    (Started /\ Cardinality({i \in 1 .. NumTrials : Included(i)}) < 2) =>
        /\ stdout = <<>>
        /\ ~Returned

Permute(table, p) == [i \in 1 .. Len(table) |-> table[p[i]]]

\* the outcome the caller sees: the returned matrix, or an error
Outcome ==
    IF pc = "error" THEN [status |-> "error"]
    ELSE [status |-> "ok", mean |-> acc.mean]

Seen(o) == IF o.status = "error" THEN [status |-> "error"] ELSE o

\* C9: when the call has ended, the call on any permutation of the table's
\* rows ends the same way: the same five rows, or an error.
C9_OrderIndependent ==
    (pc \in {"done", "error"}) =>
        \A p \in Permutations(1 .. Len(raw)) :
            Seen(CalcMeanErp(Permute(raw, p), ecog_signal, pre_event, post_event))
                = Outcome

\* two trials of one finger with different windows were both included
C9_Witness ==
    /\ Returned /\ NumTrials = 2
    /\ Included(1) /\ Included(2)
    /\ trial_points[1].finger = trial_points[2].finger
    /\ trial_points[1].start # trial_points[2].start
    /\ acc.mean[trial_points[1].finger - 1] # [k \in 1 .. WindowLength |-> <<0, 1>>]

RECURSIVE ExpectedPairs(_)
ExpectedPairs(n) ==
    IF n = 0 THEN <<>>
    ELSE IF Included(n)
         THEN Append(ExpectedPairs(n - 1),
                     <<trial_points[n].finger,
                       SumSeq([k \in 1 .. WindowLength |-> ecog_signal[Lo(n) + k]])>>)
         ELSE ExpectedPairs(n - 1)

\* C10: after every processed trial the pairs are those of the included trials
\* processed so far, each with the sum of its window; their number is the sum
\* of the counts, each count is the number of pairs of its finger, and while
\* the loop runs the samples of a class's sum add up to its pairs' responses.
C10_PairsConsistent ==
    Started =>
        LET pairs == acc.responses
            of(c) == {j \in 1 .. Len(pairs) : pairs[j][1] = c + 1}
        IN  /\ pairs = ExpectedPairs(idx)
            /\ Len(pairs) = SumSeq([c \in 1 .. NumFingers |-> acc.counts[c - 1]])
            /\ \A c \in Classes : acc.counts[c] = Cardinality(of(c))
            /\ pc = "loop" =>
                  \A c \in Classes :
                      SumSeq([k \in 1 .. WindowLength |-> acc.mean[c][k][1]])
                          = SumSeq([j \in 1 .. Len(pairs) |->
                                IF j \in of(c) THEN pairs[j][2] ELSE 0])

\* two trials of different fingers and different window sums were accumulated
C10_Witness ==
    /\ pc = "loop" /\ idx = 2 /\ Len(acc.responses) = 2
    /\ acc.responses[1][1] # acc.responses[2][1]
    /\ acc.responses[1][2] # acc.responses[2][2]

====
